---- MODULE Spec2Model ----
(***************************************************************************)
(* ipsubmap: resolve hostnames, classify each address as loopback,         *)
(* private or public, accumulate an IP -> hostnames map per scope and      *)
(* write each map as a sorted report (main.go).                            *)
(*                                                                         *)
(* Strings are sequences of byte values, so that sort.Strings is the       *)
(* byte-wise order Go uses.  A net.IP is the byte slice Go holds: 4 bytes, *)
(* or 16 bytes (an IPv4 address is usually held in its 16-byte             *)
(* IPv4-in-IPv6 form).                                                     *)
(***************************************************************************)
EXTENDS Integers, Sequences, FiniteSets, TLC

VARIABLES
    pc,        \* position of the driver (main), or of the unit harness
    flags,     \* Flags, as parsed from the command line
    mapper,    \* the ipSubMap: three fragments and the two version switches
    files,     \* the output files, one per scope: opened, written, closed
    input,     \* the input: its lines, and whether reading past them fails
    scanned,   \* the lines the scanner has returned so far
    calls,     \* the calls of resolve so far: the hostname, and what
               \* net.LookupIP returned
    appended,  \* unit harness: the (ip, subdomain) pairs append was called with
    errs,      \* enumerate's local errs
    enumRet,   \* the error value enumerate returned, once it has
    writeRet,  \* the error value ipSubMap.write (or fragment.write) returned
    nwrites    \* how many times the driver called ipSubMap.write

vars == <<pc, flags, mapper, files, input, scanned, calls, appended, errs,
          enumRet, writeRet, nwrites>>

----------------------------------------------------------------------------
(* Bounds of the model *)

\* longest input, in lines
MaxLines == 2
\* most fragment.append calls of the unit harness
MaxAppends == 3
\* a failing sink accepts at most this many bytes of the write it fails
MaxPartial == 1

----------------------------------------------------------------------------
(* Bytes and strings *)

\* the bytes of the format "%s %s\n" and of the "," separator
SP == 32
NL == 10
COMMA == 44

Min(a, b) == IF a < b THEN a ELSE b

\* Go's string order: byte-wise, a proper prefix first
RECURSIVE StrLess(_, _)
StrLess(a, b) ==
    IF b = <<>> THEN FALSE
    ELSE IF a = <<>> THEN TRUE
    ELSE IF Head(a) # Head(b) THEN Head(a) < Head(b)
    ELSE StrLess(Tail(a), Tail(b))

\* the order inverted
SortLessDesc(a, b) == StrLess(b, a)

\* the order sort.Strings sorts by
SortLess(a, b) == StrLess(a, b)

\* sort.Strings over the keys of a map (the keys are distinct)
RECURSIVE SortStrings(_)
SortStrings(S) ==
    IF S = {} THEN <<>>
    ELSE LET m == CHOOSE x \in S : \A y \in S \ {x} : SortLess(x, y)
         IN  <<m>> \o SortStrings(S \ {m})

\* strings.Join(elems, ",")
RECURSIVE Join(_)
Join(elems) ==
    IF elems = <<>> THEN <<>>
    ELSE IF Len(elems) = 1 THEN elems[1]
    ELSE elems[1] \o <<COMMA>> \o Join(Tail(elems))

\* fmt.Sprintf("%s %s\n", k, strings.Join(hosts, ","))
Sprintf(k, hosts) == k \o <<SP>> \o Join(hosts) \o <<NL>>

\* a decimal number, no leading zeros
RECURSIVE Decimal(_)
Decimal(n) ==
    IF n < 10 THEN <<48 + n>>
    ELSE Decimal(n \div 10) \o <<48 + (n % 10)>>

HexDigit(d) == IF d < 10 THEN 48 + d ELSE 97 + (d - 10)

\* a lower-case hexadecimal number, no leading zeros
RECURSIVE Hex(_)
Hex(n) ==
    IF n < 16 THEN <<HexDigit(n)>>
    ELSE Hex(n \div 16) \o <<HexDigit(n % 16)>>

----------------------------------------------------------------------------
(* net.IP *)

\* ip.To4(): the 4-byte form, or <<>> (nil) when ip is no IPv4 address
To4(ip) ==
    IF Len(ip) = 4 THEN ip
    ELSE IF /\ Len(ip) = 16
            /\ \A i \in 1..10 : ip[i] = 0
            /\ ip[11] = 255
            /\ ip[12] = 255
         THEN SubSeq(ip, 13, 16)
    ELSE <<>>

IsIPv4(ip) == To4(ip) # <<>>

\* ip.IsLoopback()
IsLoopback(ip) ==
    IF IsIPv4(ip) THEN To4(ip)[1] = 127
    ELSE /\ Len(ip) = 16
         /\ \A i \in 1..15 : ip[i] = 0
         /\ ip[16] = 1

\* ip.IsPrivate()
IsPrivate(ip) ==
    IF IsIPv4(ip)
    THEN LET ip4 == To4(ip)
         IN  \/ ip4[1] = 10
             \/ ip4[1] = 172 /\ ip4[2] \div 16 = 1
             \/ ip4[1] = 192 /\ ip4[2] = 168
    ELSE Len(ip) = 16 /\ ip[1] \div 2 = 126

\* the eight 16-bit groups of a 16-byte address
Groups(ip) == [i \in 1..8 |-> ip[2 * i - 1] * 256 + ip[2 * i]]

\* the length of the run of zero groups starting at group i
RECURSIVE ZeroRun(_, _)
ZeroRun(g, i) == IF i > 8 \/ g[i] # 0 THEN 0 ELSE 1 + ZeroRun(g, i + 1)

\* the first longest run of two or more zero groups: its start, or 0
ZeroStart(g) ==
    LET best == CHOOSE i \in 1..8 :
                    /\ \A j \in 1..8 : ZeroRun(g, j) <= ZeroRun(g, i)
                    /\ \A j \in 1..(i - 1) : ZeroRun(g, j) < ZeroRun(g, i)
    IN  IF ZeroRun(g, best) >= 2 THEN best ELSE 0

\* the text of groups i..8, with the run at zs written "::"
RECURSIVE V6Text(_, _, _)
V6Text(g, i, zs) ==
    IF i > 8 THEN <<>>
    ELSE IF i = zs THEN <<58, 58>> \o V6Text(g, i + ZeroRun(g, i), zs)
    ELSE (IF i > 1 /\ ~(zs # 0 /\ i = zs + ZeroRun(g, zs)) THEN <<58>> ELSE <<>>)
         \o Hex(g[i]) \o V6Text(g, i + 1, zs)

\* ip.String(): dotted decimal for an IPv4 address in either form, the
\* RFC 5952 text for any other 16-byte address
String(ip) ==
    IF IsIPv4(ip)
    THEN LET ip4 == To4(ip)
         IN  Decimal(ip4[1]) \o <<46>> \o Decimal(ip4[2]) \o <<46>>
             \o Decimal(ip4[3]) \o <<46>> \o Decimal(ip4[4])
    ELSE LET g == Groups(ip) IN V6Text(g, 1, ZeroStart(g))

----------------------------------------------------------------------------
(* Error values *)

Error(kind, subdomain, scope, list) ==
    [kind |-> kind, subdomain |-> subdomain, scope |-> scope, errs |-> list]

\* the nil error
Nil == Error("nil", <<>>, "", <<>>)

\* no value yet: the function has not returned
NotReturned == Error("none", <<>>, "", <<>>)

\* errors.Join(errs...): nil when there is nothing to join
ErrorsJoin(list) == IF list = <<>> THEN Nil ELSE Error("join", <<>>, "", list)

\* the error of a failed net.LookupIP, and of a failed Write or Read
LookupError == Error("lookup", <<>>, "", <<>>)
IOError == Error("io", <<>>, "", <<>>)

\* fmt.Errorf("failed to resolve subdomain %q: %v", subdomain, err)
ResolveError(subdomain, err) == Error("resolve", subdomain, "", <<err>>)

\* fmt.Errorf("failed to read input: %v", err)
ReadError(err) == Error("read", <<>>, "", <<err>>)

\* fmt.Errorf("failed to write <scope> ip subdomains: %v", err)
WriteError(scope, err) == Error("write", <<>>, scope, <<err>>)

----------------------------------------------------------------------------
(* fragment *)

EmptyMap == [k \in {} |-> <<>>]

\* fragment{}: no sink, a nil map
ZeroFragment == [out |-> FALSE, mnil |-> TRUE, m |-> EmptyMap]

\* fragment{out: out, m: make(map[string][]string)}
NewFragment == [out |-> TRUE, mnil |-> FALSE, m |-> EmptyMap]

\* append(f.m[ip], subdomain) putting the new element first
SliceAppendFront(list, subdomain) == <<subdomain>> \o list

\* append(f.m[ip], subdomain)
SliceAppend(list, subdomain) == Append(list, subdomain)

\* fragment.append
fragment_append(f, ip, subdomain) ==
    IF f.mnil THEN f
    ELSE [f EXCEPT !.m =
             [k \in DOMAIN f.m \cup {ip} |->
                 IF k = ip
                 THEN SliceAppend(IF ip \in DOMAIN f.m THEN f.m[ip] ELSE <<>>,
                                  subdomain)
                 ELSE f.m[k]]]

\* an output file: whether it was opened, the Write calls it got (the bytes
\* passed, and how many of them it accepted), how often it was closed
NoFile == [opened |-> FALSE, writes |-> <<>>, closes |-> 0]
OpenFile == [opened |-> TRUE, writes |-> <<>>, closes |-> 0]

\* how a sink may fail: at == 0 never, else its at-th Write fails, having
\* accepted the first n bytes
NoFailure == [at |-> 0, n |-> 0]

\* the failures that make a difference to fragment.write on f
FailuresFor(f) ==
    {NoFailure} \cup
    (IF f.mnil \/ ~f.out THEN {}
     ELSE [at : 1..Cardinality(DOMAIN f.m), n : 0..MaxPartial])

\* the Write calls of the loop of fragment.write over the sorted keys from
\* the i-th on, up to and including the one that fails
RECURSIVE WriteLoop(_, _, _, _)
WriteLoop(f, keys, i, fail) ==
    IF i > Len(keys) THEN <<>>
    ELSE LET output == Sprintf(keys[i], f.m[keys[i]])
         IN  IF fail.at = i
             THEN <<[p |-> output, n |-> Min(fail.n, Len(output) - 1), ok |-> FALSE]>>
             ELSE <<[p |-> output, n |-> Len(output), ok |-> TRUE]>>
                  \o WriteLoop(f, keys, i + 1, fail)

\* fragment.write with only the map checked for nil, not the sink
fragment_write_map_only(f, w, fail) ==
    IF f.mnil THEN [err |-> Nil, w |-> w]
    ELSE LET keys == SortStrings(DOMAIN f.m)
             ws   == WriteLoop(f, keys, 1, fail)
         IN  [err |-> IF ws # <<>> /\ ~ws[Len(ws)].ok THEN IOError ELSE Nil,
              w   |-> [w EXCEPT !.writes = @ \o ws]]

\* fragment.write on the sink w: the error returned and the sink afterwards
fragment_write(f, w, fail) ==
    IF f.mnil \/ ~f.out THEN [err |-> Nil, w |-> w]
    ELSE LET keys == SortStrings(DOMAIN f.m)
             ws   == WriteLoop(f, keys, 1, fail)
         IN  [err |-> IF ws # <<>> /\ ~ws[Len(ws)].ok THEN IOError ELSE Nil,
              w   |-> [w EXCEPT !.writes = @ \o ws]]

\* the bytes a sink holds
RECURSIVE Content(_)
Content(ws) ==
    IF ws = <<>> THEN <<>>
    ELSE SubSeq(ws[1].p, 1, ws[1].n) \o Content(Tail(ws))

----------------------------------------------------------------------------
(* The environment: input lines, DNS answers *)

\* hostnames "a" and "b"
Hosts == {<<97>>, <<98>>}

\* an input line: blank, or a hostname
Lines == {<<>>} \cup Hosts

\* an IPv4 address in the 16-byte form
V4in6(ip4) == <<0, 0, 0, 0, 0, 0, 0, 0, 0, 0, 255, 255>> \o ip4

Priv4 == <<10, 0, 0, 2>>
Priv4Long == <<10, 0, 0, 20>>
Pub4 == V4in6(<<2, 2, 2, 2>>)
Loop4 == V4in6(<<127, 0, 0, 1>>)
Loop6 == <<0, 0, 0, 0, 0, 0, 0, 0, 0, 0, 0, 0, 0, 0, 0, 1>>
Priv6 == <<253, 0, 0, 0, 0, 0, 0, 0, 0, 0, 0, 0, 0, 0, 0, 1>>
Pub6 == <<32, 1, 13, 184, 0, 0, 0, 0, 0, 0, 0, 0, 0, 0, 0, 1>>

\* the addresses of the model
IPs == {Priv4, V4in6(Priv4), Priv4Long, Pub4, Loop4, Loop6, Priv6, Pub6}

\* the answers net.LookupIP gives: no address; one address; addresses of
\* both versions, one of them twice; the two loopback addresses; an
\* address that another answer holds in the other form
Answers ==
    { <<>>, <<Priv4>>, <<Pub4, Pub6, Pub4>>, <<Loop4, Loop6>>,
      <<Priv6, V4in6(Priv4)>> }

\* what net.LookupIP returns: (ips, err)
LookupOutcomes ==
    {[ips |-> a, err |-> Nil] : a \in Answers}
    \cup {[ips |-> <<>>, err |-> LookupError]}

----------------------------------------------------------------------------
(* ipSubMap *)

Scopes == {"private", "public", "loopback"}

\* the switch of resolve with the loopback case missing
ClassifyNoLoopback(ip) ==
    IF IsPrivate(ip) THEN "private" ELSE "public"

\* the switch of resolve: the fragment an accepted address goes to
Classify(ip) ==
    IF IsLoopback(ip) THEN "loopback"
    ELSE IF IsPrivate(ip) THEN "private"
    ELSE "public"

\* the version filter letting every address through
SkippedNever(m, ip) == FALSE

\* the two continue statements of resolve: whether ip is skipped
Skipped(m, ip) ==
    \/ ~IsIPv4(ip) /\ ~m.ipv6
    \/ IsIPv4(ip) /\ ~m.ipv4

\* the loop of resolve over ips, from the i-th address on
RECURSIVE ResolveLoop(_, _, _, _)
ResolveLoop(m, subdomain, ips, i) ==
    IF i > Len(ips) THEN m
    ELSE LET ip == ips[i]
             s  == Classify(ip)
         IN  IF Skipped(m, ip) THEN ResolveLoop(m, subdomain, ips, i + 1)
             ELSE ResolveLoop(
                      [m EXCEPT ![s] = fragment_append(@, String(ip), subdomain)],
                      subdomain, ips, i + 1)

\* ipSubMap.resolve, net.LookupIP having returned r: the error returned and
\* the ipSubMap afterwards
ipSubMap_resolve(m, subdomain, r) ==
    IF r.err # Nil
    THEN [err |-> ResolveError(subdomain, r.err), m |-> m]
    ELSE [err |-> Nil, m |-> ResolveLoop(m, subdomain, r.ips, 1)]

\* ipSubMap.write returning at the first report that fails
ipSubMap_write_first_error(m, fs, fp, fu, fl) ==
    LET p == fragment_write(m.private, fs["private"], fp)
        u == fragment_write(m.public, fs["public"], fu)
        l == fragment_write(m.loopback, fs["loopback"], fl)
    IN  IF p.err # Nil
        THEN [err |-> ErrorsJoin(<<WriteError("private", p.err)>>),
              fs  |-> [fs EXCEPT !["private"] = p.w]]
        ELSE IF u.err # Nil
        THEN [err |-> ErrorsJoin(<<WriteError("public", u.err)>>),
              fs  |-> [fs EXCEPT !["private"] = p.w, !["public"] = u.w]]
        ELSE [err |-> ErrorsJoin(IF l.err # Nil
                                 THEN <<WriteError("loopback", l.err)>>
                                 ELSE <<>>),
              fs  |-> [fs EXCEPT !["private"] = p.w, !["public"] = u.w,
                                 !["loopback"] = l.w]]

\* ipSubMap.write on the three sinks, which fail as fp, fu and fl say: the
\* error returned and the sinks afterwards
ipSubMap_write(m, fs, fp, fu, fl) ==
    LET p == fragment_write(m.private, fs["private"], fp)
        u == fragment_write(m.public, fs["public"], fu)
        l == fragment_write(m.loopback, fs["loopback"], fl)
        e1 == IF p.err # Nil THEN <<WriteError("private", p.err)>> ELSE <<>>
        e2 == IF u.err # Nil THEN <<WriteError("public", u.err)>> ELSE <<>>
        e3 == IF l.err # Nil THEN <<WriteError("loopback", l.err)>> ELSE <<>>
    IN  [err |-> ErrorsJoin(e1 \o e2 \o e3),
         fs  |-> [fs EXCEPT !["private"] = p.w, !["public"] = u.w,
                            !["loopback"] = l.w]]

----------------------------------------------------------------------------
(* main *)

FileNames == Scopes \cup {"input"}

\* the flags: whether each -out-... names a file, and the version switches
FlagSets ==
    [outputPrivate : BOOLEAN, outputPublic : BOOLEAN, outputLoopback : BOOLEAN,
     ipv4 : BOOLEAN, ipv6 : BOOLEAN]

\* whether the -out-... flag of a scope names a file
Wanted(f, scope) ==
    CASE scope = "private" -> f.outputPrivate
      [] scope = "public" -> f.outputPublic
      [] scope = "loopback" -> f.outputLoopback

\* allEmptyStrings(f.outputPrivate, f.outputPublic, f.outputLoopback)
allEmptyStrings(f) == ~f.outputPrivate /\ ~f.outputPublic /\ ~f.outputLoopback

\* the inputs: up to MaxLines lines, after which the read ends or fails
Inputs ==
    [lines : UNION {[1..n -> Lines] : n \in 0..MaxLines}, fails : BOOLEAN]

ZeroMapper ==
    [private |-> ZeroFragment, public |-> ZeroFragment,
     loopback |-> ZeroFragment, ipv4 |-> FALSE, ipv6 |-> FALSE]

Init ==
    /\ pc = "validate"
    /\ flags \in FlagSets
    /\ mapper = ZeroMapper
    /\ files = [n \in FileNames |-> NoFile]
    /\ input \in Inputs
    /\ scanned = <<>>
    /\ calls = <<>>
    /\ appended = <<>>
    /\ errs = <<>>
    /\ enumRet = NotReturned
    /\ writeRet = Nil
    /\ nwrites = 0

\* Flags.Validate and its caller: exit(1) when the flags are refused; statOk
\* is what os.Stat finds (the input is a file, no output file exists yet)
Validate ==
    /\ pc = "validate"
    /\ \E statOk \in BOOLEAN :
          pc' = IF \/ ~statOk
                   \/ allEmptyStrings(flags)
                   \/ ~flags.ipv4 /\ ~flags.ipv6
                THEN "exit1" ELSE "open"
    /\ UNCHANGED <<flags, mapper, files, input, scanned, calls, appended, errs,
                   enumRet, writeRet, nwrites>>

\* os.Open(flags.inputFile), defer in.Close(), and the new ipSubMap
OpenInput ==
    /\ pc = "open"
    /\ \E ok \in BOOLEAN :
          IF ok
          THEN /\ files' = [files EXCEPT !["input"] = OpenFile]
               /\ mapper' = [ZeroMapper EXCEPT !.ipv4 = flags.ipv4,
                                               !.ipv6 = flags.ipv6]
               /\ pc' = "create_private"
          ELSE /\ pc' = "exit1"
               /\ UNCHANGED <<files, mapper>>
    /\ UNCHANGED <<flags, input, scanned, calls, appended, errs,
                   enumRet, writeRet, nwrites>>

\* if flags.output<Scope> != "": os.Create, defer out.Close(), the fragment
Create(scope, next) ==
    /\ pc = "create_" \o scope
    /\ IF Wanted(flags, scope)
       THEN \E ok \in BOOLEAN :
               IF ok
               THEN /\ files' = [files EXCEPT ![scope] = OpenFile]
                    /\ mapper' = [mapper EXCEPT ![scope] = NewFragment]
                    /\ pc' = next
               ELSE /\ pc' = "exit1"
                    /\ UNCHANGED <<files, mapper>>
       ELSE /\ pc' = next
            /\ UNCHANGED <<files, mapper>>
    /\ UNCHANGED <<flags, input, scanned, calls, appended, errs,
                   enumRet, writeRet, nwrites>>

CreatePrivate == Create("private", "create_public")
CreatePublic == Create("public", "create_loopback")
CreateLoopback == Create("loopback", "enumerate")

\* where main goes when enumerate returned err, were it to give up on an error
main_after_enumerate_exit(err) == IF err # Nil THEN "exit1" ELSE "write"

\* where main goes when enumerate returned err: it logs, and writes
main_after_enumerate(err) == "write"

\* where main goes when ipSubMap.write returned err
main_after_write(err) == IF err # Nil THEN "exit1" ELSE "return"

\* errs = append(errs, err) dropping what was collected before
enumerate_collect_last(list, err) == IF err # Nil THEN <<err>> ELSE list

\* if err := m.resolve(line); err != nil { errs = append(errs, err) }
enumerate_collect(list, err) == IF err # Nil THEN Append(list, err) ELSE list

\* one turn of the loop of enumerate: scanner.Scan() returns a line, which
\* is skipped when blank and resolved otherwise
EnumerateLine ==
    /\ pc = "enumerate"
    /\ Len(scanned) < Len(input.lines)
    /\ LET line == input.lines[Len(scanned) + 1]
       IN  /\ scanned' = Append(scanned, line)
           /\ IF line = <<>>
              THEN UNCHANGED <<mapper, calls, errs>>
              ELSE \E r \in LookupOutcomes :
                      LET res == ipSubMap_resolve(mapper, line, r)
                      IN  /\ mapper' = res.m
                          /\ calls' = Append(calls, [subdomain |-> line,
                                                     ips |-> r.ips,
                                                     err |-> r.err])
                          /\ errs' = enumerate_collect(errs, res.err)
    /\ UNCHANGED <<pc, flags, files, input, appended, enumRet, writeRet,
                   nwrites>>

\* what enumerate returns once scanner.Scan() returned false: the read
\* error when scanner.Err() is one, else the collected errors joined
enumerate_return(list, readFailed) ==
    IF readFailed THEN ReadError(IOError) ELSE ErrorsJoin(list)

\* scanner.Scan() returns false, at the end of the input or on a read
\* error: enumerate returns, and main logs what it returned
EnumerateReturn ==
    /\ pc = "enumerate"
    /\ Len(scanned) = Len(input.lines)
    /\ enumRet' = enumerate_return(errs, input.fails)
    /\ pc' = main_after_enumerate(enumRet')
    /\ UNCHANGED <<flags, mapper, files, input, scanned, calls, appended, errs,
                   writeRet, nwrites>>

\* mapper.write(), and exit(1) when it returned an error
Write ==
    /\ pc = "write"
    /\ \E fp \in FailuresFor(mapper.private),
          fu \in FailuresFor(mapper.public),
          fl \in FailuresFor(mapper.loopback) :
          LET res == ipSubMap_write(mapper, files, fp, fu, fl)
          IN  /\ files' = res.fs
              /\ writeRet' = res.err
              /\ pc' = main_after_write(res.err)
    /\ nwrites' = nwrites + 1
    /\ UNCHANGED <<flags, mapper, input, scanned, calls, appended, errs,
                   enumRet>>

\* main returns: the deferred Close of every file that was opened runs
Return ==
    /\ pc = "return"
    /\ files' = [n \in FileNames |->
                    IF files[n].opened
                    THEN [files[n] EXCEPT !.closes = @ + 1] ELSE files[n]]
    /\ pc' = "done"
    /\ UNCHANGED <<flags, mapper, input, scanned, calls, appended, errs,
                   enumRet, writeRet, nwrites>>

Next ==
    \/ Validate
    \/ OpenInput
    \/ CreatePrivate
    \/ CreatePublic
    \/ CreateLoopback
    \/ EnumerateLine
    \/ EnumerateReturn
    \/ Write
    \/ Return

Spec == Init /\ [][Next]_vars

----------------------------------------------------------------------------
(* The unit harness of main_test.go: one fragment, built with or without a *)
(* sink and with or without a map, appended to and then written once.  The *)
(* fragment is mapper.private and its sink files["private"].               *)

\* the keys of the harness: the texts of the addresses of the model
UnitKeys == {String(ip) : ip \in IPs}

FragInit ==
    /\ pc = "unit"
    /\ flags \in {f \in FlagSets : f.outputPrivate /\ ~f.outputPublic
                     /\ ~f.outputLoopback /\ f.ipv4 /\ f.ipv6}
    /\ \E out \in BOOLEAN, mnil \in BOOLEAN :
          mapper = [ZeroMapper EXCEPT
                       !.private = [out |-> out, mnil |-> mnil, m |-> EmptyMap]]
    /\ files = [n \in FileNames |-> NoFile]
    /\ input = [lines |-> <<>>, fails |-> FALSE]
    /\ scanned = <<>>
    /\ calls = <<>>
    /\ appended = <<>>
    /\ errs = <<>>
    /\ enumRet = NotReturned
    /\ writeRet = Nil
    /\ nwrites = 0

\* frag.append(ip, subdomain)
UnitAppend ==
    /\ pc = "unit"
    /\ Len(appended) < MaxAppends
    /\ \E ip \in UnitKeys, subdomain \in Hosts :
          /\ mapper' = [mapper EXCEPT
                           !.private = fragment_append(@, ip, subdomain)]
          /\ appended' = Append(appended, [ip |-> ip, subdomain |-> subdomain])
    /\ UNCHANGED <<pc, flags, files, input, scanned, calls, errs,
                   enumRet, writeRet, nwrites>>

\* frag.write()
UnitWrite ==
    /\ pc = "unit"
    /\ \E fail \in FailuresFor(mapper.private) :
          LET res == fragment_write(mapper.private, files["private"], fail)
          IN  /\ files' = [files EXCEPT !["private"] = res.w]
              /\ writeRet' = res.err
    /\ nwrites' = nwrites + 1
    /\ pc' = "unit_done"
    /\ UNCHANGED <<flags, mapper, input, scanned, calls, appended, errs,
                   enumRet>>

FragNext ==
    \/ UnitAppend
    \/ UnitWrite

FragSpec == FragInit /\ [][FragNext]_vars

----------------------------------------------------------------------------
(* Reading a report back *)

\* the fields of s between the separators sep
RECURSIVE Split(_, _)
Split(s, sep) ==
    IF \A i \in 1..Len(s) : s[i] # sep THEN <<s>>
    ELSE LET i == CHOOSE j \in 1..Len(s) :
                      s[j] = sep /\ \A h \in 1..(j - 1) : s[h] # sep
         IN  <<SubSeq(s, 1, i - 1)>> \o Split(SubSeq(s, i + 1, Len(s)), sep)

\* a line "<ip> <h1>,<h2>,...\n" read back: its ip and its hostnames
ParseLine(line) ==
    LET body == SubSeq(line, 1, Len(line) - 1)
        sp   == CHOOSE j \in 1..Len(body) :
                    body[j] = SP /\ \A h \in 1..(j - 1) : body[h] # SP
    IN  [ip |-> SubSeq(body, 1, sp - 1),
         hosts |-> Split(SubSeq(body, sp + 1, Len(body)), COMMA)]

\* whether line has the shape "<ip> <hosts>\n"
WellFormed(line) ==
    /\ Len(line) >= 2
    /\ line[Len(line)] = NL
    /\ \E j \in 1..(Len(line) - 1) : line[j] = SP

\* the subdomains the harness appended under ip, in the order of the calls
RECURSIVE AppendedFor(_, _)
AppendedFor(log, ip) ==
    IF log = <<>> THEN <<>>
    ELSE (IF Head(log).ip = ip THEN <<Head(log).subdomain>> ELSE <<>>)
         \o AppendedFor(Tail(log), ip)

\* the fragment and the sink of the harness
frag == mapper.private
fragOut == files["private"]

----------------------------------------------------------------------------
(* Claims about fragment.write and fragment.append, under FragSpec *)

\* C1: a fragment with a sink and a map, written to a sink that accepts
\* every write, returns no error and gets exactly one line
\* "<ip> <h1>,<h2>,...\n" per distinct key, the lines in ascending byte-wise
\* order of the key, the hostnames of a line in the order they were
\* appended; a fragment with a sink and no entries writes nothing and
\* returns no error.
C1_WriteSortedLines ==
    (pc = "unit_done" /\ frag.out) =>
        LET ws == fragOut.writes
            keys == IF frag.mnil THEN {}
                    ELSE {appended[i].ip : i \in 1..Len(appended)}
        IN  /\ (\A i \in 1..Len(ws) : ws[i].ok) =>
                  /\ writeRet = Nil
                  /\ Len(ws) = Cardinality(keys)
                  /\ \A i \in 1..Len(ws) :
                        /\ WellFormed(ws[i].p)
                        /\ ParseLine(ws[i].p).ip \in keys
                        /\ ParseLine(ws[i].p).hosts
                              = AppendedFor(appended, ParseLine(ws[i].p).ip)
                  /\ \A i \in 1..(Len(ws) - 1) :
                        StrLess(ParseLine(ws[i].p).ip, ParseLine(ws[i + 1].p).ip)
            /\ keys = {} => (writeRet = Nil /\ Content(ws) = <<>>)

\* "10.0.0.2 a\n2.2.2.2 b,a\n" was written, 2.2.2.2 having been appended
\* first
C1_Witness ==
    /\ pc = "unit_done"
    /\ frag.out
    /\ ~frag.mnil
    /\ Len(appended) = 3
    /\ appended[1].ip = String(Pub4)
    /\ Content(fragOut.writes) =
          <<49, 48, 46, 48, 46, 48, 46, 50, 32, 97, 10,
            50, 46, 50, 46, 50, 46, 50, 32, 98, 44, 97, 10>>

\* C2: a fragment with no sink is inert: whatever was appended to it, and
\* whether or not it holds entries in its map, write returns no error and
\* no sink gets a byte.
C2_NoSinkInert ==
    (pc = "unit_done" /\ ~frag.out) =>
        /\ writeRet = Nil
        /\ \A n \in FileNames : files[n].writes = <<>>

\* a fragment with entries in its map and no sink was written
C2_Witness ==
    /\ pc = "unit_done"
    /\ ~frag.out
    /\ ~frag.mnil
    /\ Cardinality(DOMAIN frag.m) = 2
    /\ Len(appended) = 3

----------------------------------------------------------------------------
(* Claims about the driver, under Spec *)

\* enumerate has returned
Enumerated == enumRet # NotReturned

\* the process has ended: main returned, or os.Exit(1) was called
Ended == pc \in {"done", "exit1"}

\* the calls of resolve whose lookup failed, in call order
FailedCalls == SelectSeq(calls, LAMBDA c : c.err # Nil)

NonBlank(line) == line # <<>>

\* C3: resolve is called once for every non-empty line, in input order,
\* whatever earlier calls returned, blank lines giving no call and no error,
\* and every failed call's error is collected in call order; and when the input was read to its end enumerate has consumed every line
\* and returns the failed hostnames' errors, joined in call order (nil when
\* none failed).
C3_EveryLineResolved ==
    /\ Len(calls) = Len(SelectSeq(scanned, NonBlank))
    /\ \A i \in 1..Len(calls) :
          calls[i].subdomain = SelectSeq(scanned, NonBlank)[i]
    /\ Len(errs) = Len(FailedCalls)
    /\ \A i \in 1..Len(errs) :
          errs[i].kind = "resolve" /\ errs[i].subdomain = FailedCalls[i].subdomain
    /\ (Enumerated /\ ~input.fails) =>
          /\ scanned = input.lines
          /\ IF FailedCalls = <<>> THEN enumRet = Nil
             ELSE /\ enumRet.kind = "join"
                  /\ Len(enumRet.errs) = Len(FailedCalls)
                  /\ \A i \in 1..Len(FailedCalls) :
                        /\ enumRet.errs[i].kind = "resolve"
                        /\ enumRet.errs[i].subdomain = FailedCalls[i].subdomain

\* "a" failed to resolve and "b", on the next line, was resolved and
\* recorded
C3_Witness ==
    /\ Enumerated
    /\ ~input.fails
    /\ Len(calls) = 2
    /\ calls[1].subdomain = <<97>> /\ calls[1].err # Nil
    /\ calls[2].subdomain = <<98>> /\ calls[2].ips = <<Priv4>>
    /\ ~mapper.private.mnil
    /\ String(Priv4) \in DOMAIN mapper.private.m
    /\ enumRet.kind = "join"

\* whether the error value e stands for a failure to resolve subdomain
RECURSIVE Mentions(_, _)
Mentions(e, subdomain) ==
    \/ e.kind = "resolve" /\ e.subdomain = subdomain
    \/ e.kind = "join" /\ \E i \in 1..Len(e.errs) : Mentions(e.errs[i], subdomain)

\* whether the error value e stands for a failure to read the input
RECURSIVE MentionsRead(_)
MentionsRead(e) ==
    \/ e.kind = "read"
    \/ e.kind = "join" /\ \E i \in 1..Len(e.errs) : MentionsRead(e.errs[i])

\* C4: on every exit path of enumerate, every resolution failure of the run
\* is represented in the error enumerate returns, and a read failure is
\* represented as a cause of its own.
C4_NoErrorDropped ==
    Enumerated =>
        /\ \A i \in 1..Len(FailedCalls) :
              Mentions(enumRet, FailedCalls[i].subdomain)
        /\ input.fails => MentionsRead(enumRet)

\* whether the sink of a scope failed: its last Write was refused
SinkFailed(scope) ==
    LET ws == files[scope].writes IN ws # <<>> /\ ~ws[Len(ws)].ok

\* the scopes in the order ipSubMap.write takes them
WriteOrder == <<"private", "public", "loopback">>

\* C5: ipSubMap.write serializes all three reports whether or not an earlier
\* one failed: a report whose sink did not fail has all its lines written, a
\* failure ends the lines of its own report only, and the error returned
\* joins exactly one error per failing report, tagged with its scope, in
\* the order private, public, loopback (nil when no report failed).
C5_AllReportsAttempted ==
    nwrites = 1 =>
        LET failed == SelectSeq(WriteOrder, SinkFailed)
        IN  /\ \A s \in Scopes :
                  LET ws == files[s].writes
                  IN  /\ \A i \in 1..(Len(ws) - 1) : ws[i].ok
                      /\ ~SinkFailed(s) =>
                            Len(ws) = IF mapper[s].out /\ ~mapper[s].mnil
                                      THEN Cardinality(DOMAIN mapper[s].m)
                                      ELSE 0
            /\ IF failed = <<>> THEN writeRet = Nil
               ELSE /\ writeRet.kind = "join"
                    /\ Len(writeRet.errs) = Len(failed)
                    /\ \A i \in 1..Len(failed) :
                          /\ writeRet.errs[i].kind = "write"
                          /\ writeRet.errs[i].scope = failed[i]

\* the private report failed at its first line of two, and the public
\* report after it was written in full
C5_Witness ==
    /\ nwrites = 1
    /\ SinkFailed("private")
    /\ Len(files["private"].writes) = 1
    /\ Cardinality(DOMAIN mapper.private.m) = 2
    /\ ~SinkFailed("public")
    /\ Len(files["public"].writes) = 2
    /\ writeRet.kind = "join"
    /\ Len(writeRet.errs) = 1
    /\ pc = "exit1"

\* the scope of an address: loopback first, then private, else public
ScopeOf(ip) ==
    CASE IsLoopback(ip) -> "loopback"
      [] ~IsLoopback(ip) /\ IsPrivate(ip) -> "private"
      [] OTHER -> "public"

\* the keys of the report of a scope
Keys(s) == DOMAIN mapper[s].m

\* the text of every address of the model
Text == [ip \in IPs |-> String(ip)]

\* whether the version switches let ip through
Accepted(ip) == IF IsIPv4(ip) THEN flags.ipv4 ELSE flags.ipv6

\* the addresses net.LookupIP returned so far that the switches let through
AcceptedIPs ==
    {ip \in UNION {{calls[j].ips[i] : i \in 1..Len(calls[j].ips)} :
                      j \in 1..Len(calls)} : Accepted(ip)}

\* C6: an address that passes the version filter goes to exactly one
\* report, loopback before private before public: the report of its scope
\* holds its key unless that report is inert, and no other report does.
C6_ScopePrecedence ==
    /\ \A ip \in AcceptedIPs : \A s \in Scopes :
          Text[ip] \in Keys(s) <=> (s = ScopeOf(ip) /\ ~mapper[s].mnil)
    /\ \A s \in Scopes : \A k \in Keys(s) :
          \E ip \in AcceptedIPs : Text[ip] = k /\ ScopeOf(ip) = s
    /\ \A s, t \in Scopes : s # t => Keys(s) \cap Keys(t) = {}

\* 127.0.0.1 and ::1 were resolved with the loopback report inert and the
\* other two reports live: neither holds them
C6_Witness ==
    /\ pc = "done"
    /\ mapper.loopback.mnil
    /\ ~mapper.private.mnil
    /\ ~mapper.public.mnil
    /\ Loop4 \in AcceptedIPs
    /\ Loop6 \in AcceptedIPs
    /\ Priv6 \in AcceptedIPs
    /\ Keys("public") = {}
    /\ Keys("private") = {String(Priv6), String(Priv4)}
    /\ Len(calls) = 2

\* whether a key is the text of an IPv4 address: dotted, no colon
IsV4Text(k) ==
    /\ \E i \in 1..Len(k) : k[i] = 46
    /\ \A i \in 1..Len(k) : k[i] # 58

\* whether a key is the text of an IPv6 address: it has a colon
IsV6Text(k) == \E i \in 1..Len(k) : k[i] = 58

\* the version filter holds in the reports
FilterHolds ==
    \A s \in Scopes : \A k \in Keys(s) :
        /\ IsV4Text(k) => flags.ipv4
        /\ IsV6Text(k) => flags.ipv6

\* a call of resolve whose every address is filtered out returns no error
\* and changes no report
FilteredCallIsSilent ==
    (/\ Len(calls') = Len(calls) + 1
     /\ calls'[Len(calls')].err = Nil
     /\ \A i \in 1..Len(calls'[Len(calls')].ips) :
           ~Accepted(calls'[Len(calls')].ips[i]))
    => (mapper' = mapper /\ errs' = errs)

\* C7: with include-v4 off no IPv4 address is a key of any report, with
\* include-v6 off no IPv6 address is, after any calls of resolve; and a
\* hostname whose addresses are all filtered out makes resolve succeed and
\* contribute nothing.
C7_VersionFilter == []FilterHolds /\ [][FilteredCallIsSilent]_vars

\* with include-v4 off, "a" resolved to 10.0.0.2 alone, which was filtered
\* out, and "b" to 2.2.2.2 and 2001:db8::1, of which only 2001:db8::1 is a
\* key; the run ended with no error
C7_Witness ==
    /\ pc = "done"
    /\ ~flags.ipv4
    /\ Len(calls) = 2
    /\ calls[1].subdomain = <<97>> /\ calls[1].ips = <<Priv4>>
    /\ calls[2].subdomain = <<98>> /\ calls[2].ips = <<Pub4, Pub6, Pub4>>
    /\ ~mapper.private.mnil
    /\ Keys("private") = {}
    /\ Keys("public") = {String(Pub6)}
    /\ enumRet = Nil

\* the hostnames the report of a key must hold: for every call of resolve
\* in call order, and every address of its answer in answer order, the
\* hostname when the address was let through and its text is the key
RECURSIVE HostsOfAnswer(_, _, _)
HostsOfAnswer(c, i, k) ==
    IF i > Len(c.ips) THEN <<>>
    ELSE (IF Accepted(c.ips[i]) /\ Text[c.ips[i]] = k
          THEN <<c.subdomain>> ELSE <<>>)
         \o HostsOfAnswer(c, i + 1, k)

RECURSIVE HostsInCallOrder(_, _)
HostsInCallOrder(cs, k) ==
    IF cs = <<>> THEN <<>>
    ELSE HostsOfAnswer(Head(cs), 1, k) \o HostsInCallOrder(Tail(cs), k)

IsPrefix(a, b) == Len(a) <= Len(b) /\ SubSeq(b, 1, Len(a)) = a

\* every step leaves every list of every report a prefix of what it is
\* afterwards
AppendOnly ==
    \A s \in Scopes : \A k \in Keys(s) :
        /\ k \in DOMAIN mapper'[s].m
        /\ IsPrefix(mapper[s].m[k], mapper'[s].m[k])

\* the list of every key is the hostnames that resolved to it, in the order
\* they were resolved
InCallOrder ==
    \A s \in Scopes : \A k \in Keys(s) :
        mapper[s].m[k] = HostsInCallOrder(calls, k)

\* C8: reports are append-only and order-preserving: a step never removes a
\* key nor changes a list other than by appending to it, so the hostnames
\* that resolve to one IP are listed in the order they were resolved.
C8_AppendOnlyInOrder == []InCallOrder /\ [][AppendOnly]_vars

\* "a" and then "b" resolved to 2.2.2.2, each answer holding it twice:
\* the report lists them in that order, once for every record
C8_Witness ==
    /\ Len(calls) = 2
    /\ calls[1].subdomain = <<97>>
    /\ calls[2].subdomain = <<98>>
    /\ ~mapper.public.mnil
    /\ String(Pub4) \in Keys("public")
    /\ mapper.public.m[String(Pub4)] = <<<<97>>, <<97>>, <<98>>, <<98>>>>
    /\ String(Pub6) \in Keys("public")
    /\ mapper.public.m[String(Pub6)] = <<<<97>>, <<98>>>>

\* serialization happens at most once, only after enumerate returned, and
\* has happened whenever the process ends after enumerate was called
WriteOnceAfterEnumerate ==
    /\ nwrites <= 1
    /\ nwrites = 1 => Enumerated
    /\ (Ended /\ (Enumerated \/ scanned # <<>>)) => nwrites = 1
    /\ pc = "enumerate" => nwrites = 0

\* once serialization has begun no report changes
NoAppendAfterWrite == nwrites >= 1 => mapper' = mapper

\* C9: in every run that starts the resolution phase the reports are
\* serialized exactly once, after enumerate returned and whatever it
\* returned, and no report is appended to once serialization has begun.
C9_WriteAfterEnumerate ==
    []WriteOnceAfterEnumerate /\ [][NoAppendAfterWrite]_vars

\* enumerate returned a read error after "a" was resolved, and the entry of
\* "a" was written all the same
C9_Witness ==
    /\ pc = "done"
    /\ enumRet.kind = "read"
    /\ nwrites = 1
    /\ Len(calls) = 1
    /\ Content(files["private"].writes)
          = <<49, 48, 46, 48, 46, 48, 46, 50, 32, 97, 10>>

\* C10: every output file the driver opened is closed exactly once before
\* the process ends, on every exit path.
C10_SinksClosedOnEveryExit ==
    Ended => \A s \in Scopes : files[s].opened => files[s].closes = 1

====
